---- MODULE Spec2Model ----
\* A model of bfc: the translator IR::from_str (src/src/ir.rs) and the
\* stepping engine VM (src/src/vm.rs).
\*
\* Rust vectors and slices are 0-indexed; TLA+ sequences are 1-indexed.
\* Every index kept in the state (token indices, jump-table entries,
\* memory_buffer_ptr, current_token_idx, token_pos) is the 0-based value the
\* code holds; At and SetAt do the translation.
EXTENDS Integers, Sequences, FiniteSets, TLC

\* ---------------------------------------------------------------- bounds

\* Longest source string handed to the translator, in characters.
MaxSrcLen == 4
\* Largest memory_buffer_size handed to the engine.
MaxMem == 2
\* Largest non-zero byte (besides 255) the byte source may produce.
MaxInByte == 1
\* Longest recorded history of byte-sink calls / byte-source calls.
MaxIO == 2

\* ------------------------------------------------------ program constants

\* u32::MAX. TLC's integers are 32 bits wide and signed, so a u32 is held as
\* the i32 of the same 32 bits: a value below 2^31 as itself, a value v from
\* 2^31 on as v - 2^32. u32::MAX is then -1, 0 - 1 wraps to it and it wraps
\* to 0 under + 1.
U32Max == -1
\* u8::MAX, the width of a memory cell.
U8Max == 255

\* ------------------------------------------------------------ characters

\* The eight instruction symbols.
Symbols == {">", "<", "+", "-", ".", ",", "[", "]"}
\* Comment characters: two ASCII ones (1 byte in UTF-8), the letter c and the
\* line feed U+000A, and a non-ASCII one (U+00E9, 2 bytes in UTF-8).
Comments == {"c", "U+00E9", "U+000A"}
Chars == Symbols \cup Comments

\* char::len_utf8 for the characters of the model.
len_utf8(ch) == IF ch = "U+00E9" THEN 2 ELSE 1

\* ----------------------------------------------------------------- Op

Ops == {"IncPtr", "DecPtr", "IncByte", "DecByte", "OutByte", "InByte",
        "LoopStart", "LoopEnd"}
None == "None"

\* Mutant of from_char: the two pointer moves are swapped.
from_char_SwappedMoves(ch) ==
    CASE ch = ">" -> "DecPtr"
      [] ch = "<" -> "IncPtr"
      [] ch = "+" -> "IncByte"
      [] ch = "-" -> "DecByte"
      [] ch = "." -> "OutByte"
      [] ch = "," -> "InByte"
      [] ch = "[" -> "LoopStart"
      [] ch = "]" -> "LoopEnd"
      [] OTHER -> None

\* Op::from_char: Some(op) as op, None as None.
from_char(ch) ==
    CASE ch = ">" -> "IncPtr"
      [] ch = "<" -> "DecPtr"
      [] ch = "+" -> "IncByte"
      [] ch = "-" -> "DecByte"
      [] ch = "." -> "OutByte"
      [] ch = "," -> "InByte"
      [] ch = "[" -> "LoopStart"
      [] ch = "]" -> "LoopEnd"
      [] OTHER -> None

\* Op::into_char.
into_char(op) ==
    CASE op = "IncPtr" -> ">"
      [] op = "DecPtr" -> "<"
      [] op = "IncByte" -> "+"
      [] op = "DecByte" -> "-"
      [] op = "OutByte" -> "."
      [] op = "InByte" -> ","
      [] op = "LoopStart" -> "["
      [] op = "LoopEnd" -> "]"

\* ------------------------------------------------------- 0-based indexing

\* v[i] of a Rust slice.
At(v, i) == v[i + 1]
\* v[i] = x of a Rust slice.
SetAt(v, i, x) == [v EXCEPT ![i + 1] = x]
\* v.len() > i for a u32 i used `as usize`: values from 2^31 on (held as
\* negative numbers) are beyond any length.
InBounds(v, i) == 0 <= i /\ i < Len(v)
\* `n as u32` of a usize n: every length the model can hold is below 2^31,
\* where the cast keeps the value.
AsU32(n) == n

\* ------------------------------------------------------------ translator

\* The number of bytes the characters lo..hi of a string take in UTF-8. The
\* sum is split in halves to keep the evaluation shallow on long strings.
RECURSIVE utf8_len(_, _, _)
utf8_len(str, lo, hi) ==
    IF lo > hi THEN 0
    ELSE IF lo = hi THEN len_utf8(str[lo])
    ELSE LET mid == (lo + hi) \div 2
         IN utf8_len(str, lo, mid) + utf8_len(str, mid + 1, hi)

\* str::char_indices: each character with the byte offset at which it
\* starts in the UTF-8 encoded string.
byte_offset(str, k) == utf8_len(str, 1, k - 1)

char_indices(input) ==
    [k \in 1..Len(input) |-> <<byte_offset(input, k), input[k]>>]

\* Mutant of ensure_len: resizes to index + 2, one entry too many.
ensure_len_OneTooMany(v, index) ==
    IF Len(v) <= index
    THEN v \o [n \in 1..(index + 2 - Len(v)) |-> 0]
    ELSE v

\* ensure_len: grow v with T::default() (0) until index is a valid index.
ensure_len(v, index) ==
    IF Len(v) <= index
    THEN v \o [n \in 1..(index + 1 - Len(v)) |-> 0]
    ELSE v

\* ParseError::new.
ParseError(token_pos, kind) == [token_pos |-> token_pos, kind |-> kind]
NoError == [token_pos |-> 0, kind |-> None]

\* The locals of from_str before the loop; err is the early return.
ScanStart ==
    [tokens |-> <<>>, jump_table |-> <<>>, loop_starts |-> <<>>,
     err |-> NoError]

\* Mutant of OnLoopStart: records the source position as the output index.
OnLoopStart_SourceIndex(st, token_pos) ==
    [st EXCEPT !.loop_starts =
        Append(@, <<token_pos, AsU32(token_pos)>>)]

\* The Op::LoopStart arm: push (tokens.len(), token_pos as u32).
OnLoopStart(st, token_pos) ==
    [st EXCEPT !.loop_starts =
        Append(@, <<Len(st.tokens), AsU32(token_pos)>>)]

\* Mutant of OnLoopEnd: the entry of the loop-end is never written.
OnLoopEnd_NoBackEntry(st, token_pos) ==
    IF st.loop_starts = <<>>
    THEN [st EXCEPT !.err = ParseError(AsU32(token_pos), "UnexpectedLoopEnd")]
    ELSE LET loop_start == st.loop_starts[Len(st.loop_starts)][1]
             here == Len(st.tokens)
             max == IF loop_start >= here THEN loop_start ELSE here
             grown == ensure_len(st.jump_table, max)
         IN [st EXCEPT
                !.loop_starts = SubSeq(@, 1, Len(@) - 1),
                !.jump_table = SetAt(grown, loop_start, AsU32(here))]

\* Mutant of OnLoopEnd: the pending loop-starts are a queue, the oldest one
\* is taken.
OnLoopEnd_Oldest(st, token_pos) ==
    IF st.loop_starts = <<>>
    THEN [st EXCEPT !.err = ParseError(AsU32(token_pos), "UnexpectedLoopEnd")]
    ELSE LET loop_start == st.loop_starts[1][1]
             here == Len(st.tokens)
             max == IF loop_start >= here THEN loop_start ELSE here
             grown == ensure_len(st.jump_table, max)
         IN [st EXCEPT
                !.loop_starts = SubSeq(@, 2, Len(@)),
                !.jump_table =
                    SetAt(SetAt(grown, loop_start, AsU32(here)),
                          here, AsU32(loop_start))]

\* Mutant of OnLoopEnd: a loop-end on an empty stack is let through and the
\* scan goes on.
OnLoopEnd_Lenient(st, token_pos) ==
    IF st.loop_starts = <<>>
    THEN st
    ELSE LET loop_start == st.loop_starts[Len(st.loop_starts)][1]
             here == Len(st.tokens)
             max == IF loop_start >= here THEN loop_start ELSE here
             grown == ensure_len(st.jump_table, max)
         IN [st EXCEPT
                !.loop_starts = SubSeq(@, 1, Len(@) - 1),
                !.jump_table =
                    SetAt(SetAt(grown, loop_start, AsU32(here)),
                          here, AsU32(loop_start))]

\* The Op::LoopEnd arm: pop, or return UnexpectedLoopEnd; then size the jump
\* table and write both entries.
OnLoopEnd(st, token_pos) ==
    IF st.loop_starts = <<>>
    THEN [st EXCEPT !.err = ParseError(AsU32(token_pos), "UnexpectedLoopEnd")]
    ELSE LET loop_start == st.loop_starts[Len(st.loop_starts)][1]
             here == Len(st.tokens)
             max == IF loop_start >= here THEN loop_start ELSE here
             grown == ensure_len(st.jump_table, max)
         IN [st EXCEPT
                !.loop_starts = SubSeq(@, 1, Len(@) - 1),
                !.jump_table =
                    SetAt(SetAt(grown, loop_start, AsU32(here)),
                          here, AsU32(loop_start))]

\* tokens.push(token), reached unless the arm returned.
PushToken(st, token) ==
    IF st.err.kind # None THEN st
    ELSE [st EXCEPT !.tokens = Append(@, token)]

\* One iteration of the loop of from_str.
ScanChar(st, token_pos, ch) ==
    LET token == from_char(ch)
    IN IF token = None THEN st
       ELSE PushToken(
                CASE token = "LoopStart" -> OnLoopStart(st, token_pos)
                  [] token = "LoopEnd" -> OnLoopEnd(st, token_pos)
                  [] OTHER -> st,
                token)

\* The iterations lo..hi of the loop of from_str, in order; nothing is
\* scanned after the early return. The range is split in halves to keep the
\* evaluation shallow on long strings.
RECURSIVE ScanRange(_, _, _, _)
ScanRange(items, lo, hi, st) ==
    IF lo > hi \/ st.err.kind # None THEN st
    ELSE IF lo = hi THEN ScanChar(st, items[lo][1], items[lo][2])
    ELSE LET mid == (lo + hi) \div 2
             half == ScanRange(items, lo, mid, st)
         IN ScanRange(items, mid + 1, hi, half)

\* The loop of from_str from the k-th character on.
Scan(items, k, st) == ScanRange(items, k, Len(items), st)

\* Mutant of Finish: reports the first (outermost) entry of loop_starts.
Finish_Outermost(st) ==
    IF st.err.kind # None
    THEN [tag |-> "Err", tokens |-> <<>>, jump_table |-> <<>>, err |-> st.err]
    ELSE IF st.loop_starts # <<>>
    THEN [tag |-> "Err", tokens |-> <<>>, jump_table |-> <<>>,
          err |-> ParseError(st.loop_starts[1][2], "UnclosedLoop")]
    ELSE [tag |-> "Ok", tokens |-> st.tokens, jump_table |-> st.jump_table,
          err |-> NoError]

\* Mutant of Finish: loops left open are closed silently at the end.
Finish_ClosesAtEnd(st) ==
    IF st.err.kind # None
    THEN [tag |-> "Err", tokens |-> <<>>, jump_table |-> <<>>, err |-> st.err]
    ELSE [tag |-> "Ok", tokens |-> st.tokens, jump_table |-> st.jump_table,
          err |-> NoError]

\* What from_str does after the loop: UnclosedLoop at the position of the
\* entry popped from loop_starts, or Ok(IR).
Finish(st) ==
    IF st.err.kind # None
    THEN [tag |-> "Err", tokens |-> <<>>, jump_table |-> <<>>, err |-> st.err]
    ELSE IF st.loop_starts # <<>>
    THEN [tag |-> "Err", tokens |-> <<>>, jump_table |-> <<>>,
          err |-> ParseError(st.loop_starts[Len(st.loop_starts)][2],
                             "UnclosedLoop")]
    ELSE [tag |-> "Ok", tokens |-> st.tokens, jump_table |-> st.jump_table,
          err |-> NoError]

\* <IR as FromStr>::from_str.
from_str(input) == Finish(Scan(char_indices(input), 1, ScanStart))

NoResult == [tag |-> "None", tokens |-> <<>>, jump_table |-> <<>>,
             err |-> NoError]

\* ------------------------------------------------------------------ state

VARIABLES
    input,              \* the source string, a sequence of characters
    overflow_checks,    \* the build: TRUE panics on integer overflow (debug),
                        \* FALSE wraps (release)
    parsed,             \* the Result of IR::from_str, NoResult before the call
    phase,              \* "source" | "parsed" | "vm" | "failed"
    ir,                 \* VM.ir
    memory_buffer_size, \* VMOptions.memory_buffer_size the engine was built
                        \* with, 0 before construction
    memory_buffer,      \* VM.memory_buffer
    memory_buffer_ptr,  \* VM.memory_buffer_ptr
    current_token_idx,  \* VM.current_token_idx
    out,                \* the bytes handed to out_fn, in order
    in_calls,           \* the number of calls of in_fn
    last_in,            \* the byte the last call of in_fn returned, 0 before
    jt_reads,           \* the indices at which step() has read ir.jump_table
    ret,                \* what the last step() returned: "true" | "false",
                        \* "none" before the first call or after a panic
    fault,              \* "none", or the panic that unwound step()
    in_run              \* TRUE inside the loop of run()

vm == <<ir, memory_buffer_size, memory_buffer, memory_buffer_ptr,
        current_token_idx>>
ports == <<out, in_calls, last_in>>
vars == <<input, overflow_checks, parsed, phase, ir, memory_buffer_size,
          memory_buffer, memory_buffer_ptr, current_token_idx, out, in_calls,
          last_in, jt_reads, ret, fault, in_run>>

\* Source strings of at most MaxSrcLen characters; the line feed only
\* occurs in the program of test_hello_world.
Sources == UNION {[1..n -> Chars \ {"U+000A"}] : n \in 0..MaxSrcLen}
\* The bytes in_fn may produce.
InBytes == {0, U8Max} \cup 1..MaxInByte

NoIR == [tokens |-> <<>>, jump_table |-> <<>>]

\* The program of test_hello_world, and the memory_buffer_size it runs with.
HelloProgram ==
    <<"U+000A", ">", "+", "+", "+", "+", "+", "+", "+", "+", "[", "<", "+",
      "+", "+", "+", "+", "+", "+", "+", "+", ">", "-", "]", "<", ".",
      "U+000A", ">", "+", "+", "+", "+", "[", "<", "+", "+", "+", "+", "+",
      "+", "+", ">", "-", "]", "<", "+", ".", "U+000A", "+", "+", "+", "+",
      "+", "+", "+", ".", ".", "U+000A", "+", "+", "+", ".", "U+000A", ">",
      ">", "+", "+", "+", "+", "+", "+", "[", "<", "+", "+", "+", "+", "+",
      "+", "+", ">", "-", "]", "<", "+", "+", ".", "U+000A", "-", "-", "-",
      "-", "-", "-", "-", "-", "-", "-", "-", "-", ".", "U+000A", ">", "+",
      "+", "+", "+", "+", "+", "[", "<", "+", "+", "+", "+", "+", "+", "+",
      "+", "+", ">", "-", "]", "<", "+", ".", "U+000A", "<", ".", "U+000A",
      "+", "+", "+", ".", "U+000A", "-", "-", "-", "-", "-", "-", ".",
      "U+000A", "-", "-", "-", "-", "-", "-", "-", "-", ".", "U+000A", ">",
      ">", ">", "+", "+", "+", "+", "[", "<", "+", "+", "+", "+", "+", "+",
      "+", "+", ">", "-", "]", "<", "+", ".">>
HelloMem == 30000

\* The port histories are recorded up to MaxIO calls; those of the program of
\* test_hello_world up to one call per character of the program.
IOLimit == IF input = HelloProgram THEN Len(HelloProgram) ELSE MaxIO

Init ==
    /\ input \in Sources
    /\ overflow_checks \in BOOLEAN
    /\ parsed = NoResult
    /\ phase = "source"
    /\ ir = NoIR
    /\ memory_buffer_size = 0
    /\ memory_buffer = <<>>
    /\ memory_buffer_ptr = 0
    /\ current_token_idx = 0
    /\ out = <<>>
    /\ in_calls = 0
    /\ last_in = 0
    /\ jt_reads = {}
    /\ ret = "none"
    /\ fault = "none"
    /\ in_run = FALSE

\* ----------------------------------------------------------- construction

\* Mutant of Construct: one cell more than asked for.
Construct_SpareCell(the_ir, size) ==
    /\ ir' = [tokens |-> the_ir.tokens, jump_table |-> the_ir.jump_table]
    /\ memory_buffer_size' = size
    /\ memory_buffer' = [n \in 1..(size + 1) |-> 0]
    /\ memory_buffer_ptr' = 0
    /\ current_token_idx' = 0

\* The fields VM::from_ir sets.
Construct(the_ir, size) ==
    /\ ir' = [tokens |-> the_ir.tokens, jump_table |-> the_ir.jump_table]
    /\ memory_buffer_size' = size
    /\ memory_buffer' = [n \in 1..size |-> 0]
    /\ memory_buffer_ptr' = 0
    /\ current_token_idx' = 0

\* IR::from_str(input), called by the user of the library.
FromStr ==
    /\ phase = "source"
    /\ parsed' = from_str(input)
    /\ phase' = IF parsed'.tag = "Ok" THEN "parsed" ELSE "failed"
    /\ UNCHANGED <<input, overflow_checks, vm, ports, jt_reads, ret, fault,
                   in_run>>

\* VM::from_ir on the IR the translator returned.
FromIr ==
    /\ phase = "parsed"
    /\ \E size \in 0..MaxMem : Construct(parsed, size)
    /\ phase' = "vm"
    /\ UNCHANGED <<input, overflow_checks, parsed, ports, jt_reads, ret, fault,
                   in_run>>

\* VM::new: from_str, `?`, then from_ir.
New ==
    /\ phase = "source"
    /\ parsed' = from_str(input)
    /\ IF parsed'.tag = "Ok"
       THEN /\ \E size \in 0..MaxMem : Construct(parsed', size)
            /\ phase' = "vm"
       ELSE /\ phase' = "failed"
            /\ UNCHANGED vm
    /\ UNCHANGED <<input, overflow_checks, ports, jt_reads, ret, fault, in_run>>

\* --------------------------------------------------------------- VM::step

\* Mutant of wrapping_add: saturates at u8::MAX.
wrapping_add_Saturating(b) == IF b = U8Max THEN U8Max ELSE b + 1

\* u8::wrapping_add(1) and u8::wrapping_sub(1).
wrapping_add(b) == (b + 1) % (U8Max + 1)
wrapping_sub(b) == IF b = 0 THEN U8Max ELSE b - 1

\* The check at the top of step(): the program has finished.
AtEnd(idx) == idx >= Len(ir.tokens)

\* Mutant of MoreTokens: compares the index of the instruction just executed.
MoreTokens_BeforeAdvance(idx) == idx - 1 < Len(ir.tokens)

\* The value step() returns after advancing.
MoreTokens(idx) == idx < Len(ir.tokens)

\* Mutant of LoopEndJumps: the condition of the loop-start arm.
LoopEndJumps_OnZero(cell) == cell = 0

\* The conditions under which the two loop arms take the jump.
LoopStartJumps(cell) == cell = 0
LoopEndJumps(cell) == cell # 0

\* `self.current_token_idx += 1` and the return value, idx being the value
\* of current_token_idx the match arm left.
Advance(idx) ==
    /\ current_token_idx' = idx + 1
    /\ ret' = IF MoreTokens(idx + 1) THEN "true" ELSE "false"
    /\ fault' = "none"

\* A panic unwinds step(): nothing is returned.
Panic(kind) ==
    /\ fault' = kind
    /\ ret' = "none"
    /\ UNCHANGED <<memory_buffer, memory_buffer_ptr, current_token_idx>>

\* Mutant of StepAtEnd: no early return, the pointer is advanced once more.
StepAtEnd_Advances ==
    /\ ret' = "false"
    /\ current_token_idx' = current_token_idx + 1
    /\ UNCHANGED <<memory_buffer, memory_buffer_ptr, out, in_calls, last_in,
                   jt_reads, fault>>

\* The early return of a finished program.
StepAtEnd ==
    /\ ret' = "false"
    /\ UNCHANGED <<memory_buffer, memory_buffer_ptr, current_token_idx, out,
                   in_calls, last_in, jt_reads, fault>>

\* Mutant of StepIncPtr: the move is checked against the tape.
StepIncPtr_Guarded ==
    /\ IF ~InBounds(memory_buffer, memory_buffer_ptr + 1)
       THEN Panic("index")
       ELSE /\ memory_buffer_ptr' = memory_buffer_ptr + 1
            /\ UNCHANGED memory_buffer
            /\ Advance(current_token_idx)
    /\ UNCHANGED <<out, in_calls, last_in, jt_reads>>

\* Op::IncPtr: memory_buffer_ptr += 1 on a u32.
StepIncPtr ==
    /\ IF memory_buffer_ptr = U32Max
       THEN IF overflow_checks
            THEN Panic("overflow")
            ELSE /\ memory_buffer_ptr' = 0
                 /\ UNCHANGED memory_buffer
                 /\ Advance(current_token_idx)
       ELSE /\ memory_buffer_ptr' = memory_buffer_ptr + 1
            /\ UNCHANGED memory_buffer
            /\ Advance(current_token_idx)
    /\ UNCHANGED <<out, in_calls, last_in, jt_reads>>

\* Op::DecPtr: memory_buffer_ptr -= 1 on a u32.
StepDecPtr ==
    /\ IF memory_buffer_ptr = 0
       THEN IF overflow_checks
            THEN Panic("overflow")
            ELSE /\ memory_buffer_ptr' = U32Max
                 /\ UNCHANGED memory_buffer
                 /\ Advance(current_token_idx)
       ELSE /\ memory_buffer_ptr' = memory_buffer_ptr - 1
            /\ UNCHANGED memory_buffer
            /\ Advance(current_token_idx)
    /\ UNCHANGED <<out, in_calls, last_in, jt_reads>>

\* Op::IncByte and Op::DecByte: the indexing panics out of bounds.
StepIncByte(heap_ptr) ==
    /\ IF InBounds(memory_buffer, heap_ptr)
       THEN /\ memory_buffer' =
                   SetAt(memory_buffer, heap_ptr,
                         wrapping_add(At(memory_buffer, heap_ptr)))
            /\ UNCHANGED memory_buffer_ptr
            /\ Advance(current_token_idx)
       ELSE Panic("index")
    /\ UNCHANGED <<out, in_calls, last_in, jt_reads>>

StepDecByte(heap_ptr) ==
    /\ IF InBounds(memory_buffer, heap_ptr)
       THEN /\ memory_buffer' =
                   SetAt(memory_buffer, heap_ptr,
                         wrapping_sub(At(memory_buffer, heap_ptr)))
            /\ UNCHANGED memory_buffer_ptr
            /\ Advance(current_token_idx)
       ELSE Panic("index")
    /\ UNCHANGED <<out, in_calls, last_in, jt_reads>>

\* Mutant of StepOutByte: the cell is cleared once it is written out.
StepOutByte_Consumes(heap_ptr) ==
    /\ IF InBounds(memory_buffer, heap_ptr)
       THEN /\ Len(out) < IOLimit
            /\ out' = Append(out, At(memory_buffer, heap_ptr))
            /\ memory_buffer' = SetAt(memory_buffer, heap_ptr, 0)
            /\ UNCHANGED memory_buffer_ptr
            /\ Advance(current_token_idx)
       ELSE /\ Panic("index")
            /\ UNCHANGED out
    /\ UNCHANGED <<in_calls, last_in, jt_reads>>

\* Op::OutByte: the cell is read, then handed to out_fn.
StepOutByte(heap_ptr) ==
    /\ IF InBounds(memory_buffer, heap_ptr)
       THEN /\ Len(out) < IOLimit
            /\ out' = Append(out, At(memory_buffer, heap_ptr))
            /\ UNCHANGED <<memory_buffer, memory_buffer_ptr>>
            /\ Advance(current_token_idx)
       ELSE /\ Panic("index")
            /\ UNCHANGED out
    /\ UNCHANGED <<in_calls, last_in, jt_reads>>

\* Mutant of StepInByte: a 0 from in_fn (end of input) leaves the cell as it
\* is.
StepInByte_KeepsOnZero(heap_ptr) ==
    /\ in_calls < IOLimit
    /\ in_calls' = in_calls + 1
    /\ last_in' \in InBytes
    /\ IF InBounds(memory_buffer, heap_ptr)
       THEN /\ memory_buffer' =
                   IF last_in' = 0 THEN memory_buffer
                   ELSE SetAt(memory_buffer, heap_ptr, last_in')
            /\ UNCHANGED memory_buffer_ptr
            /\ Advance(current_token_idx)
       ELSE Panic("index")
    /\ UNCHANGED <<out, jt_reads>>

\* Op::InByte: in_fn is called first (the right-hand side of the assignment),
\* then the cell is indexed and written.
StepInByte(heap_ptr) ==
    /\ in_calls < IOLimit
    /\ in_calls' = in_calls + 1
    /\ last_in' \in InBytes
    /\ IF InBounds(memory_buffer, heap_ptr)
       THEN /\ memory_buffer' = SetAt(memory_buffer, heap_ptr, last_in')
            /\ UNCHANGED memory_buffer_ptr
            /\ Advance(current_token_idx)
       ELSE Panic("index")
    /\ UNCHANGED <<out, jt_reads>>

\* Mutant of StepLoop: a jump lands one instruction after its target.
StepLoop_PastTarget(heap_ptr, jumps) ==
    /\ IF ~InBounds(memory_buffer, heap_ptr)
       THEN Panic("index")
       ELSE IF jumps
       THEN IF ~InBounds(ir.jump_table, current_token_idx)
            THEN Panic("index")
            ELSE /\ UNCHANGED <<memory_buffer, memory_buffer_ptr>>
                 /\ Advance(At(ir.jump_table, current_token_idx) + 1)
       ELSE /\ UNCHANGED <<memory_buffer, memory_buffer_ptr>>
            /\ Advance(current_token_idx)
    /\ jt_reads' =
          IF InBounds(memory_buffer, heap_ptr) /\ jumps
          THEN jt_reads \cup {current_token_idx}
          ELSE jt_reads
    /\ UNCHANGED <<out, in_calls, last_in>>

\* Mutant of StepLoop: the jump table is indexed by the tape pointer.
StepLoop_AtTapePointer(heap_ptr, jumps) ==
    /\ IF ~InBounds(memory_buffer, heap_ptr)
       THEN Panic("index")
       ELSE IF jumps
       THEN IF ~InBounds(ir.jump_table, heap_ptr)
            THEN Panic("index")
            ELSE /\ UNCHANGED <<memory_buffer, memory_buffer_ptr>>
                 /\ Advance(At(ir.jump_table, heap_ptr))
       ELSE /\ UNCHANGED <<memory_buffer, memory_buffer_ptr>>
            /\ Advance(current_token_idx)
    /\ jt_reads' =
          IF InBounds(memory_buffer, heap_ptr) /\ jumps
          THEN jt_reads \cup {heap_ptr}
          ELSE jt_reads
    /\ UNCHANGED <<out, in_calls, last_in>>

\* Op::LoopStart and Op::LoopEnd: the cell is read, and the jump table is
\* read (at current_token_idx, recorded in jt_reads) only when the jump is
\* taken; either indexing panics out of bounds.
StepLoop(heap_ptr, jumps) ==
    /\ IF ~InBounds(memory_buffer, heap_ptr)
       THEN Panic("index")
       ELSE IF jumps
       THEN IF ~InBounds(ir.jump_table, current_token_idx)
            THEN Panic("index")
            ELSE /\ UNCHANGED <<memory_buffer, memory_buffer_ptr>>
                 /\ Advance(At(ir.jump_table, current_token_idx))
       ELSE /\ UNCHANGED <<memory_buffer, memory_buffer_ptr>>
            /\ Advance(current_token_idx)
    /\ jt_reads' =
          IF InBounds(memory_buffer, heap_ptr) /\ jumps
          THEN jt_reads \cup {current_token_idx}
          ELSE jt_reads
    /\ UNCHANGED <<out, in_calls, last_in>>

\* VM::step.
step ==
    IF AtEnd(current_token_idx)
    THEN StepAtEnd
    ELSE LET current_token == At(ir.tokens, current_token_idx)
             heap_ptr == memory_buffer_ptr
         IN CASE current_token = "IncPtr" -> StepIncPtr
              [] current_token = "DecPtr" -> StepDecPtr
              [] current_token = "IncByte" -> StepIncByte(heap_ptr)
              [] current_token = "DecByte" -> StepDecByte(heap_ptr)
              [] current_token = "OutByte" -> StepOutByte(heap_ptr)
              [] current_token = "InByte" -> StepInByte(heap_ptr)
              [] current_token = "LoopStart" ->
                    StepLoop(heap_ptr,
                             LoopStartJumps(At(memory_buffer, heap_ptr)))
              [] current_token = "LoopEnd" ->
                    StepLoop(heap_ptr,
                             LoopEndJumps(At(memory_buffer, heap_ptr)))

\* A call of step() by the user of the engine.
Step ==
    /\ phase = "vm" /\ fault = "none" /\ ~in_run
    /\ step
    /\ UNCHANGED <<input, overflow_checks, parsed, phase, ir,
                   memory_buffer_size, in_run>>

\* A call of run(): the first iteration of `while self.step() {}`.
Run ==
    /\ phase = "vm" /\ fault = "none" /\ ~in_run
    /\ step
    /\ in_run' = (ret' = "true")
    /\ UNCHANGED <<input, overflow_checks, parsed, phase, ir,
                   memory_buffer_size>>

\* Mutant of RunLoop: `loop { self.step(); }`, the value step() returns is
\* dropped.
RunLoop_Forever ==
    /\ phase = "vm" /\ fault = "none" /\ in_run
    /\ step
    /\ in_run' = TRUE
    /\ UNCHANGED <<input, overflow_checks, parsed, phase, ir,
                   memory_buffer_size>>

\* The later iterations of the loop of run(), until step() returns false or
\* panics.
RunLoop ==
    /\ phase = "vm" /\ fault = "none" /\ in_run
    /\ step
    /\ in_run' = (ret' = "true")
    /\ UNCHANGED <<input, overflow_checks, parsed, phase, ir,
                   memory_buffer_size>>

Next == FromStr \/ FromIr \/ New \/ Step \/ Run \/ RunLoop

Spec == Init /\ [][Next]_vars

\* run() on a new engine, for the sources without comment characters. run()
\* is sequential code: once called, its loop goes on for as long as the next
\* iteration can be taken.
InitRun == Init /\ \A k \in 1..Len(input) : input[k] \in Symbols
NextRun == New \/ Run \/ RunLoop
RunSpec == InitRun /\ [][NextRun]_vars /\ WF_vars(RunLoop)

\* test_hello_world: from_str on the program, from_ir with a tape of 30,000
\* bytes, run().
InitHello ==
    /\ input = HelloProgram
    /\ overflow_checks \in BOOLEAN
    /\ parsed = NoResult
    /\ phase = "source"
    /\ ir = NoIR
    /\ memory_buffer_size = 0
    /\ memory_buffer = <<>>
    /\ memory_buffer_ptr = 0
    /\ current_token_idx = 0
    /\ out = <<>>
    /\ in_calls = 0
    /\ last_in = 0
    /\ jt_reads = {}
    /\ ret = "none"
    /\ fault = "none"
    /\ in_run = FALSE

FromIrHello ==
    /\ phase = "parsed"
    /\ Construct(parsed, HelloMem)
    /\ phase' = "vm"
    /\ UNCHANGED <<input, overflow_checks, parsed, ports, jt_reads, ret, fault,
                   in_run>>

\* The fields of the engine and the histories step() changes, as one value.
Engine ==
    [memory_buffer |-> memory_buffer, memory_buffer_ptr |-> memory_buffer_ptr,
     current_token_idx |-> current_token_idx, out |-> out,
     in_calls |-> in_calls, jt_reads |-> jt_reads, ret |-> ret,
     fault |-> fault]

\* VM::step as a function of the engine m, with the ports of
\* test_hello_world: out_fn collects the bytes, in_fn is unreachable!().
stepped(m) ==
    LET idx == m.current_token_idx
        heap_ptr == m.memory_buffer_ptr
        buf == m.memory_buffer
        advance(n, i) ==
            [n EXCEPT !.current_token_idx = i + 1,
                      !.ret = IF MoreTokens(i + 1) THEN "true" ELSE "false"]
        panic(n, kind) == [n EXCEPT !.fault = kind, !.ret = "none"]
        write(x) == advance([m EXCEPT !.memory_buffer = SetAt(buf, heap_ptr, x)],
                            idx)
        loop(jumps) ==
            IF ~jumps THEN advance(m, idx)
            ELSE IF ~InBounds(ir.jump_table, idx) THEN panic(m, "index")
            ELSE advance([m EXCEPT !.jt_reads = @ \cup {idx}],
                         At(ir.jump_table, idx))
    IN IF AtEnd(idx) THEN [m EXCEPT !.ret = "false"]
       ELSE LET current_token == At(ir.tokens, idx)
            IN IF current_token = "IncPtr"
               THEN IF heap_ptr # U32Max
                    THEN advance([m EXCEPT !.memory_buffer_ptr = @ + 1], idx)
                    ELSE IF overflow_checks THEN panic(m, "overflow")
                    ELSE advance([m EXCEPT !.memory_buffer_ptr = 0], idx)
               ELSE IF current_token = "DecPtr"
               THEN IF heap_ptr # 0
                    THEN advance([m EXCEPT !.memory_buffer_ptr = @ - 1], idx)
                    ELSE IF overflow_checks THEN panic(m, "overflow")
                    ELSE advance([m EXCEPT !.memory_buffer_ptr = U32Max], idx)
               ELSE IF current_token = "InByte"
               THEN panic([m EXCEPT !.in_calls = @ + 1], "unreachable")
               ELSE IF ~InBounds(buf, heap_ptr) THEN panic(m, "index")
               ELSE CASE current_token = "IncByte" ->
                            write(wrapping_add(At(buf, heap_ptr)))
                      [] current_token = "DecByte" ->
                            write(wrapping_sub(At(buf, heap_ptr)))
                      [] current_token = "OutByte" ->
                            advance([m EXCEPT !.out =
                                        Append(@, At(buf, heap_ptr))], idx)
                      [] current_token = "LoopStart" ->
                            loop(LoopStartJumps(At(buf, heap_ptr)))
                      [] current_token = "LoopEnd" ->
                            loop(LoopEndJumps(At(buf, heap_ptr)))

\* Up to n more iterations of `while self.step() {}`: the loop goes on while
\* step() returns true. The count is split in halves to keep the evaluation
\* shallow.
RECURSIVE iterate(_, _)
iterate(m, n) ==
    IF n = 0 \/ m.ret # "true" THEN m
    ELSE IF n = 1 THEN stepped(m)
    ELSE iterate(iterate(m, n \div 2), n - n \div 2)

\* The iterations of the loop until step() returns false or panics, tried n
\* at a time; defined for the runs that end.
RECURSIVE run_from(_, _)
run_from(m, n) ==
    LET r == iterate(m, n)
    IN IF r.ret = "true" THEN run_from(r, 2 * n) ELSE r

\* VM::run: step() is called at least once.
run(m) == run_from(stepped(m), 1)

\* vm.run() of test_hello_world, taken as one call.
RunHello ==
    /\ phase = "vm" /\ fault = "none" /\ ~in_run
    /\ LET m == run(Engine)
       IN /\ memory_buffer' = m.memory_buffer
          /\ memory_buffer_ptr' = m.memory_buffer_ptr
          /\ current_token_idx' = m.current_token_idx
          /\ out' = m.out
          /\ in_calls' = m.in_calls
          /\ jt_reads' = m.jt_reads
          /\ ret' = m.ret
          /\ fault' = m.fault
    /\ UNCHANGED <<input, overflow_checks, parsed, phase, ir,
                   memory_buffer_size, last_in, in_run>>

\* The run is also followed one iteration at a time (Run, RunLoop).
NextHello == FromStr \/ FromIrHello \/ RunHello \/ Run \/ RunLoop
HelloSpec == InitHello /\ [][NextHello]_vars

\* The translator and the construction of the engine alone, before any step.
NextTranslate == FromStr \/ FromIr \/ New
Translator == Init /\ [][NextTranslate]_vars

\* ================================================================ claims

\* from_str has returned.
Translated == parsed.tag # "None"
Accepted == parsed.tag = "Ok"
Rejected == parsed.tag = "Err"

\* Number of "[" minus number of "]" among the first k characters of s.
RECURSIVE BracketDepth(_, _)
BracketDepth(s, k) ==
    IF k = 0 THEN 0
    ELSE BracketDepth(s, k - 1)
         + (IF s[k] = "[" THEN 1 ELSE IF s[k] = "]" THEN -1 ELSE 0)

\* The 1-based character indices of the loop-ends scanned on an empty stack:
\* only the first one is ever scanned.
HasUnexpectedEnd(s) == \E k \in 1..Len(s) : BracketDepth(s, k) < 0
FirstUnexpectedEnd(s) ==
    CHOOSE k \in 1..Len(s) :
        /\ BracketDepth(s, k) < 0
        /\ \A h \in 1..(k - 1) : BracketDepth(s, h) >= 0

\* The 1-based character indices of the loop-starts no later loop-end closes.
Unmatched(s) ==
    {k \in 1..Len(s) :
        /\ s[k] = "["
        /\ \A h \in k..Len(s) : BracketDepth(s, h) >= BracketDepth(s, k)}
HasUnclosed(s) == ~HasUnexpectedEnd(s) /\ Unmatched(s) # {}
LastUnmatched(s) ==
    CHOOSE k \in Unmatched(s) : \A h \in Unmatched(s) : h <= k

\* The instructions of an accepted program whose index is i (0-based).
TokenIs(i, op) == InBounds(parsed.tokens, i) /\ At(parsed.tokens, i) = op
TokenIndices == 0..(Len(parsed.tokens) - 1)

\* C1: in every accepted program, for every loop-start at index i with
\* jump_table[i] = j the instruction at j is a loop-end and jump_table[j] = i,
\* and every loop-end index j has jump_table[jump_table[j]] = j.
C1_SymmetricPairing ==
    Accepted =>
        \A i \in TokenIndices :
            /\ TokenIs(i, "LoopStart") =>
                /\ InBounds(parsed.jump_table, i)
                /\ TokenIs(At(parsed.jump_table, i), "LoopEnd")
                /\ InBounds(parsed.jump_table, At(parsed.jump_table, i))
                /\ At(parsed.jump_table, At(parsed.jump_table, i)) = i
            /\ TokenIs(i, "LoopEnd") =>
                /\ InBounds(parsed.jump_table, i)
                /\ InBounds(parsed.jump_table, At(parsed.jump_table, i))
                /\ At(parsed.jump_table, At(parsed.jump_table, i)) = i

\* Witness of C1: "[[]]" translated, two nested loops paired 0-3 and 1-2.
C1_Witness ==
    /\ Accepted
    /\ input = <<"[", "[", "]", "]">>
    /\ parsed.jump_table = <<3, 2, 1, 0>>

\* The index of the last loop-end of a token sequence, -1 without one.
LastLoopEnd(tokens) ==
    IF \E i \in 1..Len(tokens) : tokens[i] = "LoopEnd"
    THEN (CHOOSE i \in 1..Len(tokens) :
              /\ tokens[i] = "LoopEnd"
              /\ \A h \in (i + 1)..Len(tokens) : tokens[h] # "LoopEnd") - 1
    ELSE -1

\* C2 as stated: the jump table of an accepted program is at least as long
\* as its instruction sequence.
C2_AtLeastTokens ==
    Accepted => Len(parsed.jump_table) >= Len(parsed.tokens)

\* C2 amended: the jump table of an accepted program ends right after the
\* last loop-end: its length is that index plus one, 0 for a program without
\* loops, and so at most the length of the instruction sequence.
C2_EndsAtLastLoopEnd ==
    Accepted =>
        /\ Len(parsed.jump_table) = LastLoopEnd(parsed.tokens) + 1
        /\ Len(parsed.jump_table) <= Len(parsed.tokens)

\* Witness of C2: a loop followed by more instructions, the table shorter
\* than the program.
C2_Witness ==
    /\ Accepted
    /\ \E i \in TokenIndices : TokenIs(i, "LoopEnd")
    /\ Len(parsed.jump_table) > 0
    /\ Len(parsed.jump_table) < Len(parsed.tokens)

\* C3: a source with a loop-end scanned on an empty stack is rejected with
\* UnexpectedLoopEnd at the position char_indices gives the first such
\* loop-end, whatever follows it (a later stray loop-end, an unclosed
\* loop-start).
C3_UnexpectedLoopEnd ==
    (Translated /\ HasUnexpectedEnd(input)) =>
        /\ Rejected
        /\ parsed.err.kind = "UnexpectedLoopEnd"
        /\ parsed.err.token_pos =
               byte_offset(input, FirstUnexpectedEnd(input))
        /\ parsed.tokens = <<>> /\ parsed.jump_table = <<>>

\* Witness of C3: "][" is rejected at 0 although its loop-start is unclosed.
C3_Witness ==
    /\ Rejected
    /\ input = <<"]", "[">>
    /\ parsed.err = ParseError(0, "UnexpectedLoopEnd")

\* C4: a source without an unexpected loop-end but with a loop-start that is
\* never closed is rejected with UnclosedLoop at the position char_indices
\* gives the last-opened unmatched loop-start.
C4_UnclosedLoop ==
    (Translated /\ HasUnclosed(input)) =>
        /\ Rejected
        /\ parsed.err.kind = "UnclosedLoop"
        /\ parsed.err.token_pos = byte_offset(input, LastUnmatched(input))

\* Witness of C4: "[[]" is rejected at 0, the outer loop-start being the one
\* left on the stack, after "[" at 1 was pushed and popped.
C4_Witness ==
    /\ Rejected
    /\ input = <<"[", "[", "]">>
    /\ parsed.err = ParseError(0, "UnclosedLoop")

\* The 0-based index, in the character sequence of s, of the bracket from_str
\* rejects s for.
OffendingCharIndex(s) ==
    IF HasUnexpectedEnd(s) THEN FirstUnexpectedEnd(s) - 1
    ELSE LastUnmatched(s) - 1

\* C5: the position of every ParseError is the index of the offending
\* bracket in the character sequence of the source, each preceding character
\* counting as one position however many bytes it takes.
C5_CharacterIndex ==
    Rejected => parsed.err.token_pos = OffendingCharIndex(input)

\* The source without its comment characters.
StripComments(s) == SelectSeq(s, LAMBDA ch : ch \in Symbols)

\* C6: the symbols of the instructions of an accepted program are the source
\* with every character other than the eight symbols removed, in order (the
\* source itself when it has no comments), and the jump table is the one of
\* the source without its comments.
C6_SymbolsRoundTrip ==
    Accepted =>
        /\ [i \in 1..Len(parsed.tokens) |-> into_char(parsed.tokens[i])]
               = StripComments(input)
        /\ (\A k \in 1..Len(input) : input[k] \in Symbols) =>
               [i \in 1..Len(parsed.tokens) |-> into_char(parsed.tokens[i])]
                   = input
        /\ parsed.jump_table = from_str(StripComments(input)).jump_table

\* Witness of C6: a 1-byte comment before a loop and a 2-byte one inside it,
\* giving the program "[]" with the jump table of "[]".
C6_Witness ==
    /\ Accepted
    /\ input = <<"c", "[", "U+00E9", "]">>
    /\ parsed.tokens = <<"LoopStart", "LoopEnd">>
    /\ parsed.jump_table = <<1, 0>>

\* ---------------------------------------------------------- engine claims

\* The engine exists and has not been unwound by a panic.
Live == phase = "vm" /\ fault = "none"
\* The two states of the engine.
Running == Live /\ current_token_idx < Len(ir.tokens)
Halted == Live /\ current_token_idx >= Len(ir.tokens)
\* A transition that is a call of step(): by the user, or by run().
StepCall == Live /\ phase' = "vm"
\* A call of step() that executes the instruction op.
Executes(op) ==
    /\ StepCall
    /\ current_token_idx < Len(ir.tokens)
    /\ At(ir.tokens, current_token_idx) = op
\* The active cell exists.
HasCell == InBounds(memory_buffer, memory_buffer_ptr)
ActiveCell == At(memory_buffer, memory_buffer_ptr)

\* Loop-starts minus loop-ends among the instructions a..b (0-based).
RECURSIVE Nesting(_, _, _)
Nesting(tokens, a, b) ==
    IF b < a THEN 0
    ELSE Nesting(tokens, a, b - 1)
         + (IF At(tokens, b) = "LoopStart" THEN 1
            ELSE IF At(tokens, b) = "LoopEnd" THEN -1 ELSE 0)

\* The loop-end that closes the loop-start at i: the first index after i at
\* which the nesting is back to what it was before i.
MatchingEnd(tokens, i) ==
    CHOOSE j \in (i + 1)..(Len(tokens) - 1) :
        /\ Nesting(tokens, i, j) = 0
        /\ \A h \in i..(j - 1) : Nesting(tokens, i, h) > 0

\* The loop-start that the loop-end at j closes.
MatchingStart(tokens, j) ==
    CHOOSE i \in 0..(j - 1) :
        /\ At(tokens, i) = "LoopStart"
        /\ MatchingEnd(tokens, i) = j

\* C7: a step() on a loop-start leaves the instruction pointer one past the
\* matching loop-end when the active cell is 0 and one past the loop-start
\* otherwise; a step() on a loop-end leaves it one past the matching
\* loop-start when the active cell is not 0 and one past the loop-end
\* otherwise.
C7_LoopJumps ==
    [][/\ (Executes("LoopStart") /\ HasCell) =>
            /\ fault' = "none"
            /\ current_token_idx' =
                  IF ActiveCell = 0
                  THEN MatchingEnd(ir.tokens, current_token_idx) + 1
                  ELSE current_token_idx + 1
       /\ (Executes("LoopEnd") /\ HasCell) =>
            /\ fault' = "none"
            /\ current_token_idx' =
                  IF ActiveCell # 0
                  THEN MatchingStart(ir.tokens, current_token_idx) + 1
                  ELSE current_token_idx + 1
      ]_vars

\* Witness of C7: in "+[+]" the engine is back at the loop body with the
\* cell at 2, which only the jump from the loop-end gets it to.
C7_Witness ==
    /\ Live
    /\ input = <<"+", "[", "+", "]">>
    /\ current_token_idx = 2
    /\ HasCell /\ ActiveCell = 2

\* C8: a step() on increment-cell sets the active cell to 0 from 255 and to
\* one more otherwise, a step() on decrement-cell sets it to 255 from 0 and
\* to one less otherwise, neither panics, and every cell is in 0..255 in
\* every state.
C8_WrappingCells ==
    /\ [](\A n \in 1..Len(memory_buffer) : memory_buffer[n] \in 0..U8Max)
    /\ [][/\ (Executes("IncByte") /\ HasCell) =>
              /\ fault' = "none"
              /\ At(memory_buffer', memory_buffer_ptr) =
                    IF ActiveCell = 255 THEN 0 ELSE ActiveCell + 1
          /\ (Executes("DecByte") /\ HasCell) =>
              /\ fault' = "none"
              /\ At(memory_buffer', memory_buffer_ptr) =
                    IF ActiveCell = 0 THEN 255 ELSE ActiveCell - 1
         ]_vars

\* Witness of C8: "-+" has run, the cell went 0, 255, 0.
C8_Witness ==
    /\ Live
    /\ input = <<"-", "+">>
    /\ current_token_idx = 2
    /\ HasCell /\ ActiveCell = 0

\* C9: a step() on a halted engine returns false, calls neither port and
\* leaves the tape, the tape pointer and the instruction pointer as they
\* are; a halted engine stays halted.
C9_HaltedAbsorbing ==
    [][(Halted /\ phase' = "vm") =>
          /\ Halted'
          /\ ret' = "false"
          /\ UNCHANGED <<memory_buffer, memory_buffer_ptr, current_token_idx,
                         out, in_calls>>
      ]_vars

\* Witness of C9: step() has returned false on an engine built from a source
\* without instructions, halted from construction.
C9_Witness ==
    /\ Halted
    /\ ir.tokens = <<>>
    /\ ret = "false"

\* C10: step() returns true exactly when the instruction pointer it leaves
\* is below the length of the instruction sequence.
C10_ReturnsMoreWork ==
    (Live /\ ret # "none") =>
        (ret = "true" <=> current_token_idx < Len(ir.tokens))

\* Witness of C10: the first step() on "[+]" jumps to the final loop-end,
\* leaves the pointer at 3 and returns false in that call.
C10_Witness ==
    /\ Live
    /\ input = <<"[", "+", "]">>
    /\ HasCell /\ ActiveCell = 0
    /\ current_token_idx = 3
    /\ ret = "false"

\* C11: a step() on output-cell hands the sink the active cell, once, and no
\* other step() calls the sink, so that out is, in order, the cell at each
\* output-cell executed; a step() on input-cell calls the source once, no
\* other step() calls it, and the byte it returns is the active cell when the
\* step() returns, whatever the cell held.
C11_PortCalls ==
    [][StepCall =>
          /\ (Executes("OutByte") /\ HasCell) =>
                /\ fault' = "none"
                /\ out' = Append(out, ActiveCell)
          /\ ~(Executes("OutByte") /\ HasCell) => out' = out
          /\ Executes("InByte") =>
                /\ in_calls' = in_calls + 1
                /\ HasCell =>
                      /\ fault' = "none"
                      /\ At(memory_buffer', memory_buffer_ptr) = last_in'
          /\ ~Executes("InByte") =>
                /\ in_calls' = in_calls
                /\ last_in' = last_in
      ]_vars

\* Witness of C11: ",.,." has run with the source giving 255 and then 0: the
\* sink got 255 and 0 in that order, the 0 having replaced the 255.
C11_Witness ==
    /\ Live
    /\ input = <<",", ".", ",", ".">>
    /\ current_token_idx = 4
    /\ in_calls = 2
    /\ out = <<255, 0>>

\* The bytes of "Hello, World!".
HelloOutput == <<72, 101, 108, 108, 111, 44, 32, 87, 111, 114, 108, 100, 33>>

\* C12: the program of test_hello_world translates, and run() on a tape of
\* 30,000 bytes never panics, never calls the source, keeps the tape pointer
\* in 0..29999, hands the sink a prefix of "Hello, World!" at every moment
\* and all 13 bytes of it by the time the engine is halted.
C12_HelloWorld ==
    /\ Translated => Accepted
    /\ phase = "vm" =>
          /\ fault = "none"
          /\ Len(memory_buffer) = 30000
          /\ memory_buffer_ptr \in 0..29999
          /\ in_calls = 0
          /\ Len(out) <= 13
          /\ out = SubSeq(HelloOutput, 1, Len(out))
          /\ Halted => out = HelloOutput

\* Witness of C12: run() has returned, the engine halted with the 13 bytes
\* handed to the sink.
C12_Witness ==
    /\ Halted
    /\ input = HelloProgram
    /\ ~in_run /\ ret = "false"
    /\ in_calls = 0
    /\ out = HelloOutput

\* ---------------------------------------------------------------- C13
\* C13: while a translated program is executed, every read of the jump
\* table is at an index that holds a loop-start or a loop-end and that lies
\* within the table: the table covers every loop instruction, so that no read
\* of it is out of bounds, and entries at other indices are never read.
LoopOps == {"LoopStart", "LoopEnd"}

C13_JumpTableReads ==
    phase = "vm" =>
       /\ \A i \in jt_reads :
             /\ InBounds(ir.tokens, i)
             /\ At(ir.tokens, i) \in LoopOps
             /\ InBounds(ir.jump_table, i)
       /\ \A i \in 0..(Len(ir.tokens) - 1) :
             At(ir.tokens, i) \in LoopOps => InBounds(ir.jump_table, i)
       /\ fault = "index" => ~HasCell

C13_Witness ==
    /\ Live
    /\ input = <<"+", "[", "]">>
    /\ current_token_idx = 2
    /\ jt_reads = {2}
    /\ At(ir.tokens, 0) = "IncByte"

\* ---------------------------------------------------------------- C14
\* A call of step() that executes a move of the tape pointer.
MovesPointer == Executes("IncPtr") \/ Executes("DecPtr")

\* C14 as stated: a move of the tape pointer never faults, from any tape
\* pointer; it changes the pointer by one, wrapping, and advances the
\* instruction pointer.
C14_InfallibleMoves ==
    [][MovesPointer =>
          /\ fault' = "none"
          /\ current_token_idx' = current_token_idx + 1
          /\ Executes("IncPtr") =>
                memory_buffer_ptr' =
                   IF memory_buffer_ptr = U32Max THEN 0
                   ELSE memory_buffer_ptr + 1
          /\ Executes("DecPtr") =>
                memory_buffer_ptr' =
                   IF memory_buffer_ptr = 0 THEN U32Max
                   ELSE memory_buffer_ptr - 1
      ]_vars

\* C14, amended: a move of the tape pointer is not checked against the tape
\* and leaves the tape as it is. Away from the ends of the u32 range (0 for a
\* move to the left, u32::MAX for a move to the right) it changes the pointer
\* by one, advances the instruction pointer and does not fault. At the end of
\* the range a build with overflow checks panics and leaves the engine as it
\* is, and a build without them wraps and advances. A move never faults on an
\* index, and no other instruction faults on an overflow: an index fault
\* arises only in a step that accesses the active cell outside the tape.
C14_PointerMoves ==
    [][StepCall =>
          /\ MovesPointer =>
                LET at_end == IF Executes("IncPtr")
                              THEN memory_buffer_ptr = U32Max
                              ELSE memory_buffer_ptr = 0
                    moved == IF Executes("IncPtr")
                             THEN IF at_end THEN 0 ELSE memory_buffer_ptr + 1
                             ELSE IF at_end THEN U32Max
                                  ELSE memory_buffer_ptr - 1
                IN /\ memory_buffer' = memory_buffer
                   /\ IF at_end /\ overflow_checks
                      THEN /\ fault' = "overflow"
                           /\ memory_buffer_ptr' = memory_buffer_ptr
                           /\ current_token_idx' = current_token_idx
                      ELSE /\ fault' = "none"
                           /\ memory_buffer_ptr' = moved
                           /\ current_token_idx' = current_token_idx + 1
          /\ fault' = "overflow" => MovesPointer
          /\ fault' = "index" => ~MovesPointer /\ ~HasCell
      ]_vars

C14_Witness ==
    /\ phase = "vm"
    /\ input = <<"<">>
    /\ overflow_checks
    /\ fault = "overflow"
    /\ ret = "none"
    /\ memory_buffer_ptr = 0
    /\ current_token_idx = 0

\* ---------------------------------------------------------------- C15
\* A transition that constructs the engine: VM::from_ir, or VM::new on a
\* source that translates.
Constructs == phase # "vm" /\ phase' = "vm"

\* C15: right after construction with tape size S the tape has S cells, all
\* 0, the instruction pointer and the tape pointer are 0 and no port has been
\* called; the engine holds the program the translator returned; and the tape
\* has S cells in every state of the engine.
C15_Construction ==
    /\ [][Constructs =>
             /\ Len(memory_buffer') = memory_buffer_size'
             /\ \A i \in 0..(memory_buffer_size' - 1) :
                   At(memory_buffer', i) = 0
             /\ current_token_idx' = 0
             /\ memory_buffer_ptr' = 0
             /\ out' = <<>> /\ in_calls' = 0
             /\ ret' = "none" /\ fault' = "none"
             /\ ir'.tokens = parsed'.tokens
             /\ ir'.jump_table = parsed'.jump_table
        ]_vars
    /\ [][phase = "vm" => memory_buffer_size' = memory_buffer_size]_vars
    /\ [](phase = "vm" => Len(memory_buffer) = memory_buffer_size)

C15_Witness ==
    /\ phase = "vm"
    /\ input = <<"+", ">", "+">>
    /\ memory_buffer_size = 2
    /\ memory_buffer = <<0, 0>>
    /\ ir.tokens = <<"IncByte", "IncPtr", "IncByte">>
    /\ current_token_idx = 0
    /\ ret = "none" /\ fault = "none"

\* ---------------------------------------------------------------- C16
\* C16: a step() taken while Running changes only what its instruction
\* prescribes. A move of the tape pointer leaves every cell as it is and, when
\* the step returns, has changed the pointer by one; increment-cell,
\* decrement-cell and input-cell leave the tape pointer and every cell but the
\* active one as they are; output-cell, loop-start and loop-end leave the tape
\* and the tape pointer as they are; the tape keeps its length; a step on one
\* of the six instructions that are not loops, when it returns, has increased
\* the instruction pointer by one; and a step that panics leaves the tape and
\* both pointers as they are.
C16_FrameEffects ==
    [][(StepCall /\ Running) =>
          LET op == At(ir.tokens, current_token_idx)
              returns == fault' = "none"
              others_kept ==
                 \A i \in 0..(Len(memory_buffer) - 1) :
                    i # memory_buffer_ptr =>
                       At(memory_buffer', i) = At(memory_buffer, i)
          IN /\ Len(memory_buffer') = Len(memory_buffer)
             /\ op \in {"IncPtr", "DecPtr"} =>
                   /\ memory_buffer' = memory_buffer
                   /\ returns /\ op = "IncPtr" =>
                         memory_buffer_ptr' = AsU32(memory_buffer_ptr + 1)
                   /\ returns /\ op = "DecPtr" =>
                         memory_buffer_ptr' = AsU32(memory_buffer_ptr - 1)
             /\ op \in {"IncByte", "DecByte", "InByte"} =>
                   /\ memory_buffer_ptr' = memory_buffer_ptr
                   /\ others_kept
             /\ op \in {"OutByte", "LoopStart", "LoopEnd"} =>
                   /\ memory_buffer' = memory_buffer
                   /\ memory_buffer_ptr' = memory_buffer_ptr
             /\ returns /\ op \notin LoopOps =>
                   current_token_idx' = current_token_idx + 1
             /\ ~returns =>
                   /\ memory_buffer' = memory_buffer
                   /\ memory_buffer_ptr' = memory_buffer_ptr
                   /\ current_token_idx' = current_token_idx
      ]_vars

C16_Witness ==
    /\ Live
    /\ input = <<"+", ">", ",", ".">>
    /\ memory_buffer = <<1, 255>>
    /\ memory_buffer_ptr = 1
    /\ current_token_idx = 4
    /\ out = <<255>>

\* ---------------------------------------------------------------- C17
\* The brackets of a source are balanced: no prefix has more loop-ends than
\* loop-starts, and the whole source has as many of each.
Balanced(s) ==
    /\ \A k \in 1..Len(s) : BracketDepth(s, k) >= 0
    /\ BracketDepth(s, Len(s)) = 0

\* C17: from_str returns Ok exactly for the sources whose brackets are
\* balanced, and then no error; for every other source it returns one
\* ParseError, UnclosedLoop or UnexpectedLoopEnd, and neither instructions
\* nor a jump table, and no engine is ever built from it.
C17_OkIffBalanced ==
    /\ Translated =>
          /\ Accepted \/ Rejected
          /\ Accepted <=> Balanced(input)
          /\ Accepted => parsed.err = NoError
          /\ Rejected =>
                /\ parsed.err.kind \in {"UnclosedLoop", "UnexpectedLoopEnd"}
                /\ parsed.tokens = <<>>
                /\ parsed.jump_table = <<>>
                /\ phase = "failed"
                /\ ir = NoIR
    /\ phase = "vm" => Accepted
    /\ phase = "failed" => Rejected

C17_Witness ==
    /\ Accepted
    /\ input = <<"[", "]", "[", "]">>
    /\ parsed.jump_table = <<1, 0, 3, 2>>
    /\ phase = "parsed"

\* ---------------------------------------------------------------- C18
\* The instructions strictly between the indices i and j form a balanced
\* bracket sequence.
BalancedBetween(tokens, i, j) ==
    /\ \A h \in (i + 1)..(j - 1) : Nesting(tokens, i + 1, h) >= 0
    /\ Nesting(tokens, i + 1, j - 1) = 0

\* The instruction at j is the loop-end that closes the loop-start at i.
Closes(tokens, i, j) ==
    /\ i < j
    /\ InBounds(tokens, j)
    /\ At(tokens, j) = "LoopEnd"
    /\ BalancedBetween(tokens, i, j)

\* C18: in every accepted program, the entry of a loop-start at i is the
\* loop-end that closes it: the only loop-end j > i with a balanced sequence
\* of instructions strictly between i and j. No two loop-starts have the same
\* partner, and a loop that starts inside another one ends inside it.
C18_ProperNesting ==
    Accepted =>
        \A i \in TokenIndices :
            TokenIs(i, "LoopStart") =>
                /\ InBounds(parsed.jump_table, i)
                /\ Closes(parsed.tokens, i, At(parsed.jump_table, i))
                /\ \A j \in TokenIndices :
                      Closes(parsed.tokens, i, j) =>
                         j = At(parsed.jump_table, i)
                /\ \A k \in TokenIndices :
                      TokenIs(k, "LoopStart") /\ k # i =>
                         At(parsed.jump_table, k) # At(parsed.jump_table, i)
                /\ \A k \in TokenIndices :
                      /\ TokenIs(k, "LoopStart")
                      /\ i < k /\ k < At(parsed.jump_table, i)
                      => At(parsed.jump_table, k) < At(parsed.jump_table, i)

C18_Witness ==
    /\ Accepted
    /\ input = <<"[", "[", "]", "]">>
    /\ parsed.jump_table = <<3, 2, 1, 0>>
    /\ Closes(parsed.tokens, 0, 3)
    /\ Closes(parsed.tokens, 1, 2)

\* ---------------------------------------------------------------- C19
\* C19: in every state of an engine built from a translated program of N
\* instructions, whatever calls of step() and run() led to it, the
\* instruction pointer is within 0..N: a jump followed by the advance never
\* leaves it beyond N, and Halted is the state with the pointer at N.
C19_PointerWithinProgram ==
    phase = "vm" =>
        /\ 0 <= current_token_idx
        /\ current_token_idx <= Len(ir.tokens)
        /\ Halted <=> (Live /\ current_token_idx = Len(ir.tokens))
        /\ Running <=> (Live /\ current_token_idx \in TokenIndices)
        /\ ir.tokens = parsed.tokens

C19_Witness ==
    /\ Halted
    /\ input = <<"[", "[", "]", "]">>
    /\ jt_reads = {0}
    /\ current_token_idx = 4
    /\ ret = "false"

\* ---------------------------------------------------------------- C20
\* The program of the engine has instructions and no loop.
LoopFree ==
    /\ phase = "vm"
    /\ Len(ir.tokens) >= 1
    /\ \A i \in 0..(Len(ir.tokens) - 1) : At(ir.tokens, i) \notin LoopOps

\* How many of the instructions a..b-1 are op.
CountOf(op, a, b) == Cardinality({k \in a..(b - 1) : At(ir.tokens, k) = op})

\* The tape is large enough for the rest of a program without loops: the
\* tape pointer is within the tape now and after each instruction left.
StaysInside ==
    \A k \in current_token_idx..Len(ir.tokens) :
        InBounds(memory_buffer,
                 memory_buffer_ptr + CountOf("IncPtr", current_token_idx, k)
                                   - CountOf("DecPtr", current_token_idx, k))

\* The port calls of the rest of the program fit the recorded histories.
WithinIO ==
    /\ Len(out) + CountOf("OutByte", current_token_idx, Len(ir.tokens))
          <= IOLimit
    /\ in_calls + CountOf("InByte", current_token_idx, Len(ir.tokens))
          <= IOLimit

\* The program "+[]" on a tape with a cell: the body of its loop never zeroes
\* the cell the loop tests.
SpinsForever ==
    /\ phase = "vm"
    /\ ir.tokens = <<"IncByte", "LoopStart", "LoopEnd">>
    /\ memory_buffer_size >= 1

\* C20: on a program of N >= 1 instructions without loops and a tape large
\* enough, every step() executes the instruction under the instruction
\* pointer and advances by one without a fault, returning true up to the
\* N-th instruction and false on it; run() calls step() while it returns
\* true and makes no call once it returned false, so that from a new engine
\* it makes N calls and ends in Halted, which every run in progress reaches.
\* On "+[]" no state is Halted and a run in progress never ends.
C20_RunTerminates ==
    /\ [][(StepCall /\ Running /\ LoopFree /\ StaysInside) =>
             /\ fault' = "none"
             /\ current_token_idx' = current_token_idx + 1
             /\ ret' = IF current_token_idx + 1 < Len(ir.tokens)
                       THEN "true" ELSE "false"
             /\ StaysInside'
        ]_vars
    /\ [][StepCall => (in_run' => ret' = "true")]_vars
    /\ [][(StepCall /\ in_run) => (in_run' <=> ret' = "true")]_vars
    /\ [](in_run => Running /\ ret = "true")
    /\ (in_run /\ LoopFree /\ StaysInside /\ WithinIO)
          ~> (Halted /\ ~in_run /\ ret = "false")
    /\ [](SpinsForever => ~Halted)
    /\ [][(SpinsForever /\ in_run) => in_run']_vars

C20_Witness ==
    /\ in_run /\ LoopFree /\ StaysInside /\ WithinIO
    /\ input = <<"+", ">", "+", ".">>
    /\ memory_buffer = <<1, 1>>
    /\ current_token_idx = 3
    /\ ret = "true"

====
